---- MODULE Spec2Model ----
(***************************************************************************)
(* A model of src/main.rs: the bencode front end of a BitTorrent client.   *)
(* Byte strings (Vec<u8>, &[u8], String, &str) are sequences of integers   *)
(* 0..255; text is the sequence of its UTF-8 bytes.  Error messages, which *)
(* nothing parses, are TLA+ strings.                                       *)
(***************************************************************************)
EXTENDS Integers, Sequences, FiniteSets, TLC

VARIABLES
    pc,             \* position of the running operation
    \* the fixed-width decoders on their own
    v,              \* the &[u8] handed to visit_bytes
    hashes,         \* Result<Hashes, E> of HashesVisitor::visit_bytes
    response,       \* Result<TrackerResponse> decoded from a body holding v
    \* urlencode on its own
    t,              \* the [u8; 20] handed to urlencode
    encoded,        \* the String urlencode returns
    \* main and what it calls
    command,        \* Command: "decode", "info" or "peers"
    value,          \* Command::Decode { value }
    torrent_file,   \* io::Result<Vec<u8>> of std::fs::read(torrent)
    torrent,        \* Result<Torrent> of serde_bencode::from_bytes
    encoded_info,   \* Option: the bytes info_hash handed to the hasher (last call)
    hash,           \* Option: the hashes::Hash info_hash returned (last call)
    calls,          \* the number of info_hash calls made
    client,         \* Option<Client>
    request,        \* Option<reqwest::Request>: method and url
    sent,           \* the number of requests handed to the network
    body,           \* Option: the response body read
    peers,          \* Result<Peers>: of visit_bytes, of get_peers
    stdout,         \* the lines printed
    exit,           \* "running", "ok" (Ok(())), "error" (Err from main), "panic"
    \* Info through the encoder and back
    decoded,        \* Result<Info> of from_bytes(to_bytes(info))
    reencoded       \* Option: to_bytes of the decoded Info

codecVars == <<v, hashes, response>>
urlencodeVars == <<t, encoded>>
inputVars == <<command, value, torrent_file>>
hashVars == <<encoded_info, hash, calls>>
trackerVars == <<client, request, sent, body>>
roundTripVars == <<decoded, reencoded>>

vars == <<pc, codecVars, urlencodeVars, inputVars, torrent, hashVars, trackerVars,
          peers, stdout, exit, roundTripVars>>

(***************************************************************************)
(* Bounds of the model's inputs.                                           *)
(***************************************************************************)
MaxBytes == 41      \* longest byte string handed to the chunk decoders
MaxStep == 2        \* the input families use byte strides 0..MaxStep
MaxPieces == 2      \* most piece hashes of an Info
MaxCalls == 2       \* most info_hash calls on one Torrent

(***************************************************************************)
(* Bytes and text.                                                         *)
(***************************************************************************)
Byte == 0..255

\* The printable ASCII characters, in code order from 32 (code 96 by name).
AsciiPrintable ==
    << " ", "!", "\"", "#", "$", "%", "&", "'", "(", ")", "*", "+", ",", "-", ".", "/",
       "0", "1", "2", "3", "4", "5", "6", "7", "8", "9", ":", ";", "<", "=", ">", "?",
       "@", "A", "B", "C", "D", "E", "F", "G", "H", "I", "J", "K", "L", "M", "N", "O",
       "P", "Q", "R", "S", "T", "U", "V", "W", "X", "Y", "Z", "[", "\\", "]", "^", "_",
       "grave", "a", "b", "c", "d", "e", "f", "g", "h", "i", "j", "k", "l", "m", "n", "o",
       "p", "q", "r", "s", "t", "u", "v", "w", "x", "y", "z", "{", "|", "}", "~" >>

\* The byte of one printable ASCII character.
Ord(c) == 31 + (CHOOSE i \in 1..Len(AsciiPrintable) : AsciiPrintable[i] = c)

\* The bytes of a text given character by character.
Text(cs) == [i \in 1..Len(cs) |-> Ord(cs[i])]

RECURSIVE Concat(_)
\* Vec<[u8; N]>::concat and the like: the sequences of ss end to end, by halves.
Concat(ss) ==
    IF ss = <<>> THEN <<>>
    ELSE IF Len(ss) = 1 THEN ss[1]
    ELSE LET mid == Len(ss) \div 2
         IN  Concat(SubSeq(ss, 1, mid)) \o Concat(SubSeq(ss, mid + 1, Len(ss)))

RECURSIVE Dec(_)
\* Display of an unsigned integer ("{}"): decimal digits, no leading zero.
Dec(n) == IF n < 10 THEN <<Ord("0") + n>>
          ELSE Dec(n \div 10) \o <<Ord("0") + (n % 10)>>

\* The family of input byte strings: n bytes starting at seed, stride step.
Pattern(n, seed, step) == [i \in 1..n |-> (seed + (i - 1) * step) % 256]

Ok(x) == [ok |-> TRUE, val |-> x, err |-> ""]
Err(msg) == [ok |-> FALSE, val |-> <<>>, err |-> msg]
Unset == [ok |-> FALSE, val |-> <<>>, err |-> "unset"]

(***************************************************************************)
(* mod hashes, mod peers: the fixed-width decoders.                        *)
(***************************************************************************)
HashWidth == 20
PeerWidth == 6

\* slice::chunks_exact(w): the whole chunks of w bytes, the remainder dropped.
ChunksExact(b, w) == [i \in 1..(Len(b) \div w) |-> SubSeq(b, (i - 1) * w + 1, i * w)]

\* visit_bytes without its length test: the whole chunks, the rest dropped.
HashesVisitBytes_NoLengthCheck(b) == Ok(ChunksExact(b, HashWidth))

HashesVisitBytes(b) ==
    IF Len(b) % HashWidth # 0
    THEN Err("length is " \o ToString(Len(b)))
    ELSE Ok(ChunksExact(b, HashWidth))

\* u16::from_be_bytes([hi, lo])
U16FromBeBytes(hi, lo) == hi * 256 + lo

\* format!("{}.{}.{}.{}", chunk[0], chunk[1], chunk[2], chunk[3])
FormatIp(chunk) ==
    Dec(chunk[1]) \o <<Ord(".")>> \o Dec(chunk[2]) \o <<Ord(".")>>
        \o Dec(chunk[3]) \o <<Ord(".")>> \o Dec(chunk[4])

\* The port read low byte first.
PeerOfChunk_LittleEndian(chunk) ==
    [ip |-> FormatIp(chunk), port |-> U16FromBeBytes(chunk[6], chunk[5])]

PeerOfChunk(chunk) ==
    [ip |-> FormatIp(chunk), port |-> U16FromBeBytes(chunk[5], chunk[6])]

PeersVisitBytes(b) ==
    IF Len(b) % PeerWidth # 0
    THEN Err("length is " \o ToString(Len(b)))
    ELSE LET chunks == ChunksExact(b, PeerWidth)
         IN  Ok([i \in 1..Len(chunks) |-> PeerOfChunk(chunks[i])])

(***************************************************************************)
(* urlencode                                                               *)
(***************************************************************************)
HexDigits == Text(<< "0", "1", "2", "3", "4", "5", "6", "7",
                     "8", "9", "a", "b", "c", "d", "e", "f" >>)

\* hex::encode(&[byte]): two lower-case hex digits.
HexEncodeByte(b) == <<HexDigits[(b \div 16) + 1], HexDigits[(b % 16) + 1]>>

\* A generic percent-encoder's treatment of one byte: unreserved bytes pass.
IsUnreserved(b) ==
    \/ b \in Ord("0")..Ord("9")
    \/ b \in Ord("a")..Ord("z")
    \/ b \in Ord("A")..Ord("Z")
    \/ b \in {Ord("-"), Ord("."), Ord("_"), Ord("~")}

\* urlencode as a generic percent-encoder would do it.
urlencode_PassUnreserved(h) ==
    Concat([i \in 1..Len(h) |->
        IF IsUnreserved(h[i]) THEN <<h[i]>> ELSE <<Ord("%")>> \o HexEncodeByte(h[i])])

urlencode(h) ==
    Concat([i \in 1..Len(h) |-> <<Ord("%")>> \o HexEncodeByte(h[i])])

(***************************************************************************)
(* serde_bencode: the decoder behind from_bytes / from_str.  A decoded     *)
(* value is a tree; a dictionary keeps its entries in input order, as the  *)
(* streaming decoder meets them.                                           *)
(***************************************************************************)
BInt(n) == [t |-> "int", i |-> n, b |-> <<>>, items |-> <<>>]
BBytes(bs) == [t |-> "bytes", i |-> 0, b |-> bs, items |-> <<>>]
BList(xs) == [t |-> "list", i |-> 0, b |-> <<>>, items |-> xs]
BDict(es) == [t |-> "dict", i |-> 0, b |-> <<>>, items |-> es]
BNone == [t |-> "none", i |-> 0, b |-> <<>>, items |-> <<>>]

\* What one decoding step returns: the value and the position after it.
Parsed(val, next) == [ok |-> TRUE, end |-> FALSE, val |-> val, next |-> next, err |-> ""]
ParsedEnd(next) == [ok |-> TRUE, end |-> TRUE, val |-> BNone, next |-> next, err |-> ""]
ParseErr(msg) == [ok |-> FALSE, end |-> FALSE, val |-> BNone, next |-> 0, err |-> msg]

IsDigit(c) == c \in Ord("0")..Ord("9")

\* The first position >= p of b holding byte c, or 0.
IndexFrom(b, p, c) ==
    IF \E q \in p..Len(b) : b[q] = c
    THEN CHOOSE q \in p..Len(b) : b[q] = c /\ \A r \in p..(q - 1) : b[r] # c
    ELSE 0

RECURSIVE DigitsValue(_)
\* The number a run of decimal digits denotes.
DigitsValue(ds) ==
    IF ds = <<>> THEN 0
    ELSE DigitsValue(SubSeq(ds, 1, Len(ds) - 1)) * 10 + (ds[Len(ds)] - Ord("0"))

\* str::parse::<i64>: an optional sign, then one digit or more.
ParseI64(s) ==
    LET signed == s # <<>> /\ s[1] \in {Ord("-"), Ord("+")}
        ds == IF signed THEN Tail(s) ELSE s
    IN  IF ds = <<>> \/ \E k \in 1..Len(ds) : ~IsDigit(ds[k])
        THEN Err("invalid integer")
        ELSE Ok(IF signed /\ s[1] = Ord("-") THEN 0 - DigitsValue(ds) ELSE DigitsValue(ds))

\* str::parse::<usize> of a length prefix, whose first byte is a digit.
ParseUsize(s) ==
    IF \E k \in 1..Len(s) : ~IsDigit(s[k])
    THEN Err("invalid length")
    ELSE Ok(DigitsValue(s))

RECURSIVE ParseAt(_, _), ParseList(_, _, _), ParseDict(_, _, _)

\* One value of b starting at position p (or the end marker 'e').
ParseAt(b, p) ==
    IF p > Len(b) THEN ParseErr("end of stream")
    ELSE CASE b[p] = Ord("i") ->
                LET q == IndexFrom(b, p + 1, Ord("e"))
                    n == ParseI64(SubSeq(b, p + 1, q - 1))
                IN  IF q = 0 THEN ParseErr("end of stream")
                    ELSE IF ~n.ok THEN ParseErr(n.err)
                    ELSE Parsed(BInt(n.val), q + 1)
           [] IsDigit(b[p]) ->
                LET q == IndexFrom(b, p + 1, Ord(":"))
                    n == ParseUsize(SubSeq(b, p, q - 1))
                IN  IF q = 0 THEN ParseErr("end of stream")
                    ELSE IF ~n.ok THEN ParseErr(n.err)
                    ELSE IF q + n.val > Len(b) THEN ParseErr("end of stream")
                    ELSE Parsed(BBytes(SubSeq(b, q + 1, q + n.val)), q + n.val + 1)
           [] b[p] = Ord("l") -> ParseList(b, p + 1, <<>>)
           [] b[p] = Ord("d") -> ParseDict(b, p + 1, <<>>)
           [] b[p] = Ord("e") -> ParsedEnd(p + 1)
           [] OTHER -> ParseErr("invalid value")

\* The elements of a list up to its 'e'.
ParseList(b, p, acc) ==
    LET x == ParseAt(b, p)
    IN  IF ~x.ok THEN x
        ELSE IF x.end THEN Parsed(BList(acc), x.next)
        ELSE ParseList(b, x.next, Append(acc, x.val))

\* The entries of a dictionary up to its 'e'; a key is a byte string.
ParseDict(b, p, acc) ==
    LET k == ParseAt(b, p)
    IN  IF ~k.ok THEN k
        ELSE IF k.end THEN Parsed(BDict(acc), k.next)
        ELSE IF k.val.t # "bytes" THEN ParseErr("invalid type: key")
        ELSE LET x == ParseAt(b, k.next)
             IN  IF ~x.ok THEN x
                 ELSE IF x.end THEN ParseErr("invalid type: end")
                 ELSE ParseDict(b, x.next, Append(acc, [k |-> k.val.b, val |-> x.val]))

\* serde_bencode::from_bytes as far as the value tree: one value read from the
\* start of the input.
FromBytes(b) ==
    LET x == ParseAt(b, 1)
    IN  IF ~x.ok THEN Err(x.err)
        ELSE IF x.end THEN Err("invalid type: end")
        ELSE Ok(x.val)

(***************************************************************************)
(* Typed decoding (serde's Deserialize) of the values above.               *)
(***************************************************************************)
RECURSIVE IsUtf8(_)
\* str::from_utf8 succeeds on bs.
IsUtf8(bs) ==
    IF bs = <<>> THEN TRUE
    ELSE LET c == bs[1]
             n == Len(bs)
             cont(k, lo, hi) == k <= n /\ bs[k] \in lo..hi
         IN  CASE c <= 127 -> IsUtf8(Tail(bs))
               [] c \in 194..223 ->
                    cont(2, 128, 191) /\ IsUtf8(SubSeq(bs, 3, n))
               [] c \in 224..239 ->
                    /\ cont(2, IF c = 224 THEN 160 ELSE 128, IF c = 237 THEN 159 ELSE 191)
                    /\ cont(3, 128, 191)
                    /\ IsUtf8(SubSeq(bs, 4, n))
               [] c \in 240..244 ->
                    /\ cont(2, IF c = 240 THEN 144 ELSE 128, IF c = 244 THEN 143 ELSE 191)
                    /\ cont(3, 128, 191)
                    /\ cont(4, 128, 191)
                    /\ IsUtf8(SubSeq(bs, 5, n))
               [] OTHER -> FALSE

\* u64::deserialize: a non-negative integer.
DeserializeU64(x) ==
    IF x.t # "int" THEN Err("invalid type: expected u64")
    ELSE IF x.i < 0 THEN Err("invalid value: expected u64")
    ELSE Ok(x.i)

\* String::deserialize: a byte string that is UTF-8.
DeserializeString(x) ==
    IF x.t # "bytes" THEN Err("invalid type: expected a string")
    ELSE IF ~IsUtf8(x.b) THEN Err("invalid value: expected a string")
    ELSE Ok(x.b)

\* Deserialize for Hashes: deserialize_bytes(HashesVisitor).  The visitor has
\* visit_bytes alone, so any other kind of value is an invalid type.
DeserializeHashes(x) ==
    IF x.t # "bytes"
    THEN Err("invalid type: expected a byte string whose length is a multiple of 20")
    ELSE HashesVisitBytes(x.b)

\* A decoder of the non-compact format, which the program does not have: one
\* peer for each dictionary of the list, from its "ip" and "port".
PeersOfDicts(xs) ==
    [n \in 1..Len(xs) |->
        LET ip == {m \in 1..Len(xs[n].items) : xs[n].items[m].k = Text(<<"i", "p">>)}
            port == {m \in 1..Len(xs[n].items) : xs[n].items[m].k = Text(<<"p", "o", "r", "t">>)}
        IN  [ ip |-> IF ip = {} THEN <<>> ELSE xs[n].items[CHOOSE m \in ip : TRUE].val.b,
              port |-> IF port = {} THEN 0 ELSE xs[n].items[CHOOSE m \in port : TRUE].val.i ]]

\* Deserialize for Peers with a fallback for the non-compact format.
DeserializePeers_AcceptList(x) ==
    IF x.t = "list" THEN Ok(PeersOfDicts(x.items))
    ELSE IF x.t # "bytes"
    THEN Err("invalid type: expected a byte string whose length is a multiple of 6")
    ELSE PeersVisitBytes(x.b)

\* Deserialize for Peers: deserialize_bytes(PeersVisitor), visit_bytes alone.
DeserializePeers(x) ==
    IF x.t # "bytes"
    THEN Err("invalid type: expected a byte string whose length is a multiple of 6")
    ELSE PeersVisitBytes(x.b)

\* Option<Vec<u8>>
None == [some |-> FALSE, val |-> <<>>]
Some(x) == [some |-> TRUE, val |-> x]

IsAlpha(c) == c \in Ord("a")..Ord("z") \/ c \in Ord("A")..Ord("Z")

\* reqwest::Url::parse, as far as the program depends on it: an absolute URL is
\* a scheme, ':', and the rest, of which '#' starts the fragment and '?' the query.
UrlParse(s) ==
    LET colon == IndexFrom(s, 1, Ord(":"))
        frag == IndexFrom(s, 1, Ord("#"))
        upto == IF frag = 0 THEN Len(s) ELSE frag - 1
        qm == IndexFrom(SubSeq(s, 1, upto), 1, Ord("?"))
        schemeOk ==
            /\ colon > 1
            /\ IsAlpha(s[1])
            /\ \A k \in 2..(colon - 1) :
                   IsAlpha(s[k]) \/ IsDigit(s[k]) \/ s[k] \in {Ord("+"), Ord("-"), Ord(".")}
    IN  IF ~schemeOk THEN Err("relative URL without a base")
        ELSE Ok([ base |-> SubSeq(s, 1, IF qm = 0 THEN upto ELSE qm - 1),
                  query |-> IF qm = 0 THEN None ELSE Some(SubSeq(s, qm + 1, upto)),
                  fragment |-> IF frag = 0 THEN None ELSE Some(SubSeq(s, frag + 1, Len(s))) ])

\* Display for reqwest::Url
UrlToString(u) ==
    u.base \o (IF u.query.some THEN <<Ord("?")>> \o u.query.val ELSE <<>>)
           \o (IF u.fragment.some THEN <<Ord("#")>> \o u.fragment.val ELSE <<>>)

\* Url::has_host: "//" and a non-empty host follow the scheme.
UrlHasHost(u) ==
    LET colon == IndexFrom(u.base, 1, Ord(":"))
    IN  /\ Len(u.base) >= colon + 3
        /\ u.base[colon + 1] = Ord("/")
        /\ u.base[colon + 2] = Ord("/")
        /\ u.base[colon + 3] # Ord("/")

\* Deserialize for Url: a String, then reqwest::Url::parse.
DeserializeUrl(x) ==
    LET str == DeserializeString(x)
    IN  IF ~str.ok THEN str ELSE UrlParse(str.val)

\* The positions of the entries of a dictionary with key k.
FieldAt(es, k) == {n \in 1..Len(es) : es[n].k = k}
FieldValue(es, k) == es[CHOOSE n \in FieldAt(es, k) : TRUE].val

\* What #[derive(Deserialize)] checks of a struct before its fields: the value
\* is a dictionary, no field comes twice, every field is there.  Other keys are
\* read and ignored.
StructShape(x, keys) ==
    IF x.t # "dict" THEN Err("invalid type: expected struct")
    ELSE IF \E k \in keys : Cardinality(FieldAt(x.items, k)) > 1 THEN Err("duplicate field")
    ELSE IF \E k \in keys : FieldAt(x.items, k) = {} THEN Err("missing field")
    ELSE Ok(x.items)

KeyLength == Text(<<"l", "e", "n", "g", "t", "h">>)
KeyName == Text(<<"n", "a", "m", "e">>)
KeyPieceLength == Text(<<"p", "i", "e", "c", "e", " ", "l", "e", "n", "g", "t", "h">>)
KeyPieces == Text(<<"p", "i", "e", "c", "e", "s">>)
KeyAnnounce == Text(<<"a", "n", "n", "o", "u", "n", "c", "e">>)
KeyInfo == Text(<<"i", "n", "f", "o">>)
KeyInterval == Text(<<"i", "n", "t", "e", "r", "v", "a", "l">>)
KeyPeers == Text(<<"p", "e", "e", "r", "s">>)

\* #[derive(Deserialize)] struct Info
DeserializeInfo(x) ==
    LET shape == StructShape(x, {KeyLength, KeyName, KeyPieceLength, KeyPieces})
        length == DeserializeU64(FieldValue(x.items, KeyLength))
        name == DeserializeString(FieldValue(x.items, KeyName))
        piece_length == DeserializeU64(FieldValue(x.items, KeyPieceLength))
        pieces == DeserializeHashes(FieldValue(x.items, KeyPieces))
    IN  IF ~shape.ok THEN shape
        ELSE IF ~length.ok THEN length
        ELSE IF ~name.ok THEN name
        ELSE IF ~piece_length.ok THEN piece_length
        ELSE IF ~pieces.ok THEN pieces
        ELSE Ok([ length |-> length.val, name |-> name.val,
                  piece_length |-> piece_length.val, pieces |-> pieces.val ])

\* #[derive(Deserialize)] struct Torrent
DeserializeTorrent(x) ==
    LET shape == StructShape(x, {KeyAnnounce, KeyInfo})
        announce == DeserializeUrl(FieldValue(x.items, KeyAnnounce))
        info == DeserializeInfo(FieldValue(x.items, KeyInfo))
    IN  IF ~shape.ok THEN shape
        ELSE IF ~announce.ok THEN announce
        ELSE IF ~info.ok THEN info
        ELSE Ok([announce |-> announce.val, info |-> info.val])

\* #[derive(Deserialize)] struct TrackerResponse
DeserializeTrackerResponse(x) ==
    LET shape == StructShape(x, {KeyInterval, KeyPeers})
        interval == DeserializeU64(FieldValue(x.items, KeyInterval))
        ps == DeserializePeers(FieldValue(x.items, KeyPeers))
    IN  IF ~shape.ok THEN shape
        ELSE IF ~interval.ok THEN interval
        ELSE IF ~ps.ok THEN ps
        ELSE Ok([_interval |-> interval.val, peers |-> ps.val])

\* serde_bencode::from_bytes::<Torrent>, ::<Info>, ::<TrackerResponse>
TorrentFromBytes(b) ==
    LET x == FromBytes(b) IN IF ~x.ok THEN x ELSE DeserializeTorrent(x.val)
InfoFromBytes(b) ==
    LET x == FromBytes(b) IN IF ~x.ok THEN x ELSE DeserializeInfo(x.val)
TrackerResponseFromBytes(b) ==
    LET x == FromBytes(b) IN IF ~x.ok THEN x ELSE DeserializeTrackerResponse(x.val)

(***************************************************************************)
(* serde_bencode: the encoder behind to_bytes.                             *)
(***************************************************************************)
\* Display of an i64
DecSigned(n) == IF n < 0 THEN <<Ord("-")>> \o Dec(0 - n) ELSE Dec(n)

\* serialize_u64 / serialize_i64: i<decimal>e
EncInt(n) == <<Ord("i")>> \o DecSigned(n) \o <<Ord("e")>>

\* serialize_bytes / serialize_str: <length>:<bytes>
EncBytes(bs) == Dec(Len(bs)) \o <<Ord(":")>> \o bs

\* Byte-wise lexicographic order of two byte strings.
BytesLess(a, b) ==
    \E n \in 1..(Len(a) + 1) :
        /\ \A m \in 1..(n - 1) : m <= Len(b) /\ a[m] = b[m]
        /\ \/ n = Len(a) + 1 /\ Len(b) >= n
           \/ n <= Len(a) /\ n <= Len(b) /\ a[n] < b[n]

RECURSIVE SortEntries(_)
\* The entries of a dictionary in ascending key order.
SortEntries(es) ==
    IF es = <<>> THEN <<>>
    ELSE LET least == CHOOSE n \in 1..Len(es) :
                          \A m \in 1..Len(es) :
                              m = n \/ BytesLess(es[n].k, es[m].k)
                                    \/ (es[n].k = es[m].k /\ n < m)
             others == [m \in 1..(Len(es) - 1) |-> IF m < least THEN es[m] ELSE es[m + 1]]
         IN  <<es[least]>> \o SortEntries(others)

\* SerializeStruct / SerializeMap end: d, the entries by ascending key, e.
\* An entry is a key and its value already encoded.
EncDict(es) ==
    LET sorted == SortEntries(es)
    IN  <<Ord("d")>>
            \o Concat([n \in 1..Len(sorted) |-> EncBytes(sorted[n].k) \o sorted[n].val])
            \o <<Ord("e")>>

RECURSIVE Reversed(_)
\* xs back to front.
Reversed(xs) == IF xs = <<>> THEN <<>> ELSE Reversed(Tail(xs)) \o <<Head(xs)>>

\* Serialize for Hashes with the hashes written last to first.
SerializeHashes_Reversed(hs) == EncBytes(Concat(Reversed(hs)))

\* Serialize for Hashes: the hashes end to end as one byte string.
SerializeHashes(hs) == EncBytes(Concat(hs))

\* #[derive(Serialize)] struct Info, through serde_bencode::to_bytes
SerializeInfo(info) ==
    EncDict(<< [k |-> KeyLength, val |-> EncInt(info.length)],
               [k |-> KeyName, val |-> EncBytes(info.name)],
               [k |-> KeyPieceLength, val |-> EncInt(info.piece_length)],
               [k |-> KeyPieces, val |-> SerializeHashes(info.pieces)] >>)

RECURSIVE DigestSpan(_, _, _, _)
\* The digest stand-in folds each byte c into lane j by acc -> acc * 33 + c + j
\* (mod 256), an invertible step.  DigestSpan is the fold over bs[lo..hi] as a
\* pair <<m, a>> standing for acc -> acc * m + a, computed by halves.
DigestSpan(j, bs, lo, hi) ==
    IF lo = hi THEN <<33, (bs[lo] + j) % 256>>
    ELSE LET mid == (lo + hi) \div 2
             l == DigestSpan(j, bs, lo, mid)
             r == DigestSpan(j, bs, mid + 1, hi)
         IN  <<(l[1] * r[1]) % 256, (l[2] * r[1] + r[2]) % 256>>

DigestLane(j, bs) ==
    LET start == (Len(bs) + 7 * j) % 256
        span == DigestSpan(j, bs, 1, Len(bs))
    IN  IF bs = <<>> THEN start ELSE (start * span[1] + span[2]) % 256

\* Sha1::new, update, finalize.  SHA-1 itself is the sha1 crate's; here it is a
\* function from byte strings to 20 bytes that every input byte and position
\* changes, which is all the program relies on.
Sha1(bs) == [j \in 1..HashWidth |-> DigestLane(j, bs)]

\* info_hash over the encoding of the whole Torrent, announce included.
EncodedInfo_WithAnnounce(self) ==
    EncDict(<< [k |-> KeyAnnounce, val |-> EncBytes(UrlToString(self.announce))],
               [k |-> KeyInfo, val |-> SerializeInfo(self.info)] >>)

\* let encoded_info = serde_bencode::to_bytes(&self.info).unwrap();
EncodedInfo(self) == SerializeInfo(self.info)

\* Torrent::info_hash
info_hash(self) == Sha1(EncodedInfo(self))

(***************************************************************************)
(* The decode command: interperet_value, decode_bencoded_value.            *)
(***************************************************************************)
JNumber(n) == [t |-> "number", i |-> n, b |-> <<>>, items |-> <<>>]
JString(bs) == [t |-> "string", i |-> 0, b |-> bs, items |-> <<>>]
JArray(xs) == [t |-> "array", i |-> 0, b |-> <<>>, items |-> xs]
JObject(es) == [t |-> "object", i |-> 0, b |-> <<>>, items |-> es]

\* How a call ends: with a value, or in a panic (an unwrap of an Err).
Returned(x) == [panic |-> FALSE, val |-> x]
Panicked == [panic |-> TRUE, val |-> BNone]

\* Value::Dict is a map: of the entries with one key the last one stays.
\* serde_json::Map keeps its keys in order.
MapEntries(es) ==
    SortEntries(Concat([n \in 1..Len(es) |->
        IF \E m \in (n + 1)..Len(es) : es[m].k = es[n].k THEN <<>> ELSE <<es[n]>>]))

RECURSIVE interperet_value(_)
interperet_value(bv) ==
    CASE bv.t = "int" -> Returned(JNumber(bv.i))
      [] bv.t = "bytes" ->
            \* String::from_utf8(b).unwrap()
            IF IsUtf8(bv.b) THEN Returned(JString(bv.b)) ELSE Panicked
      [] bv.t = "list" ->
            LET vs == [n \in 1..Len(bv.items) |-> interperet_value(bv.items[n])]
            IN  IF \E n \in 1..Len(vs) : vs[n].panic THEN Panicked
                ELSE Returned(JArray([n \in 1..Len(vs) |-> vs[n].val]))
      [] bv.t = "dict" ->
            LET d == MapEntries(bv.items)
                vs == [n \in 1..Len(d) |-> interperet_value(d[n].val)]
            IN  \* String::from_utf8(k).unwrap()
                IF \E n \in 1..Len(d) : ~IsUtf8(d[n].k) \/ vs[n].panic THEN Panicked
                ELSE Returned(JObject([n \in 1..Len(d) |-> [k |-> d[n].k, val |-> vs[n].val]]))

\* interperet_value(serde_bencode::from_str(&input).unwrap())
decode_bencoded_value(input) ==
    LET r == FromBytes(input)
    IN  IF ~r.ok THEN Panicked ELSE interperet_value(r.val)

\* serde_json's escaping of one byte of a string.
JsonEscape(c) ==
    CASE c = Ord("\"") -> Text(<<"\\", "\"">>)
      [] c = Ord("\\") -> Text(<<"\\", "\\">>)
      [] c = 8 -> Text(<<"\\", "b">>)
      [] c = 9 -> Text(<<"\\", "t">>)
      [] c = 10 -> Text(<<"\\", "n">>)
      [] c = 12 -> Text(<<"\\", "f">>)
      [] c = 13 -> Text(<<"\\", "r">>)
      [] c < 32 -> Text(<<"\\", "u", "0", "0">>) \o HexEncodeByte(c)
      [] OTHER -> <<c>>

JsonQuote(bs) ==
    <<Ord("\"")>> \o Concat([n \in 1..Len(bs) |-> JsonEscape(bs[n])]) \o <<Ord("\"")>>

\* xs end to end with sep between them.
Join(xs, sep) ==
    Concat([n \in 1..Len(xs) |-> IF n = 1 THEN xs[n] ELSE sep \o xs[n]])

RECURSIVE JsonToString(_)
\* serde_json::Value::to_string: the compact form.
JsonToString(j) ==
    CASE j.t = "number" -> DecSigned(j.i)
      [] j.t = "string" -> JsonQuote(j.b)
      [] j.t = "array" ->
            <<Ord("[")>> \o Join([n \in 1..Len(j.items) |-> JsonToString(j.items[n])],
                                 <<Ord(",")>>) \o <<Ord("]")>>
      [] j.t = "object" ->
            <<Ord("{")>> \o Join([n \in 1..Len(j.items) |->
                                     JsonQuote(j.items[n].k) \o <<Ord(":")>>
                                         \o JsonToString(j.items[n].val)],
                                 <<Ord(",")>>) \o <<Ord("}")>>

(***************************************************************************)
(* Client: new, get_peers.                                                 *)
(***************************************************************************)
\* Client::new
ClientNew(tor) ==
    [ peer_id |-> Text(<<"0", "0", "1", "1", "2", "2", "3", "3", "4", "4", "5", "5", "6", "6", "7", "7", "8", "8", "9", "9">>),
      left |-> tor.info.length,
      port |-> 6881,
      uploaded |-> 0,
      downloaded |-> 0 ]

HexDigitsUpper == Text(<< "0", "1", "2", "3", "4", "5", "6", "7",
                          "8", "9", "A", "B", "C", "D", "E", "F" >>)

\* %XX with upper-case digits, as the url and form_urlencoded crates write it.
PercentEncodeByte(c) ==
    <<Ord("%"), HexDigitsUpper[(c \div 16) + 1], HexDigitsUpper[(c % 16) + 1]>>

\* form_urlencoded's byte_serialize, which serde_urlencoded applies to keys
\* and values.
FormEncode(bs) ==
    Concat([n \in 1..Len(bs) |->
        IF IsAlpha(bs[n]) \/ IsDigit(bs[n])
              \/ bs[n] \in {Ord("*"), Ord("-"), Ord("."), Ord("_")}
        THEN <<bs[n]>>
        ELSE IF bs[n] = Ord(" ") THEN <<Ord("+")>>
        ELSE PercentEncodeByte(bs[n])])

\* serde_urlencoded::to_string(&TrackerRequest {..}): the fields in the order
\* the struct declares them.  The `as usize` casts keep the value on a 64-bit
\* target.
TrackerRequestQuery(self) ==
    Join(<< Text(<<"p", "e", "e", "r", "_", "i", "d", "=">>) \o FormEncode(self.peer_id),
            Text(<<"p", "o", "r", "t", "=">>) \o FormEncode(Dec(self.port)),
            Text(<<"u", "p", "l", "o", "a", "d", "e", "d", "=">>) \o FormEncode(Dec(self.uploaded)),
            Text(<<"d", "o", "w", "n", "l", "o", "a", "d", "e", "d", "=">>) \o FormEncode(Dec(self.downloaded)),
            Text(<<"l", "e", "f", "t", "=">>) \o FormEncode(Dec(self.left)),
            Text(<<"c", "o", "m", "p", "a", "c", "t", "=">>) \o FormEncode(Dec(1)) >>, <<Ord("&")>>)

\* The query with info_hash form-urlencoded like the other values, which
\* encodes its '%' a second time.
RequestQuery_FormEncoded(self, tor) ==
    Text(<<"i", "n", "f", "o", "_", "h", "a", "s", "h", "=">>) \o FormEncode(urlencode(info_hash(tor)))
        \o <<Ord("&")>> \o TrackerRequestQuery(self)

\* format!("info_hash={}&{}", urlencode(&self.torrent.info_hash()).as_str(), query)
RequestQuery(self, tor) ==
    Text(<<"i", "n", "f", "o", "_", "h", "a", "s", "h", "=">>) \o urlencode(info_hash(tor))
        \o <<Ord("&")>> \o TrackerRequestQuery(self)

\* Url::set_query(Some(q)): q replaces the query, the bytes a query cannot
\* hold percent-encoded ('%' itself is kept).
UrlSetQuery(u, q) ==
    [u EXCEPT !.query =
        Some(Concat([n \in 1..Len(q) |->
            IF q[n] <= 32 \/ q[n] >= 127
                  \/ q[n] \in {Ord("\""), Ord("#"), Ord("<"), Ord(">"), Ord("'")}
            THEN PercentEncodeByte(q[n])
            ELSE <<q[n]>>]))]

\* hex::encode
HexEncode(bs) == Concat([n \in 1..Len(bs) |-> HexEncodeByte(bs[n])])

\* Peer::to_string
PeerToString(peer) == peer.ip \o <<Ord(":")>> \o Dec(peer.port)

(***************************************************************************)
(* The states no operation has touched.                                    *)
(***************************************************************************)
IdleCodec == v = <<>> /\ hashes = Unset /\ response = Unset
IdleUrlencode == t = <<>> /\ encoded = <<>>
IdleInput == command = "none" /\ value = <<>> /\ torrent_file = Unset
IdleHash == encoded_info = None /\ hash = None /\ calls = 0
IdleTracker == client = None /\ request = None /\ sent = 0 /\ body = None
IdleOutput == peers = Unset /\ stdout = <<>> /\ exit = "running"
IdleRoundTrip == decoded = Unset /\ reencoded = None

(***************************************************************************)
(* The chunk decoders applied to a family of byte strings.                 *)
(***************************************************************************)
CodecInputs ==
    { Pattern(n, seed, step) : n \in 0..MaxBytes, seed \in {0, 7, 250}, step \in 0..MaxStep }

\* A bencoded dictionary with its entries as given (no sorting): what a file
\* or a tracker may send.
RawDict(es) ==
    <<Ord("d")>> \o Concat([n \in 1..Len(es) |-> EncBytes(es[n].k) \o es[n].val])
                 \o <<Ord("e")>>

\* A tracker body: d8:interval i<interval>e 5:peers <peers value> e
TrackerBody(interval, peersValue) ==
    RawDict(<< [k |-> KeyInterval, val |-> EncInt(interval)],
               [k |-> KeyPeers, val |-> peersValue] >>)

InitCodec ==
    /\ pc = "start"
    /\ v \in CodecInputs
    /\ hashes = Unset
    /\ response = Unset
    /\ IdleUrlencode /\ IdleInput /\ torrent = Unset /\ IdleHash /\ IdleTracker
    /\ IdleOutput /\ IdleRoundTrip

DecodeHashes ==
    /\ pc = "start"
    /\ hashes' = HashesVisitBytes(v)
    /\ pc' = "hashes"
    /\ UNCHANGED <<v, response, urlencodeVars, inputVars, torrent, hashVars, trackerVars,
                   peers, stdout, exit, roundTripVars>>

DecodePeers ==
    /\ pc = "start"
    /\ peers' = PeersVisitBytes(v)
    /\ pc' = "peers"
    /\ UNCHANGED <<codecVars, urlencodeVars, inputVars, torrent, hashVars, trackerVars,
                   stdout, exit, roundTripVars>>

\* serde_bencode::from_bytes::<TrackerResponse> of a body with interval 900
\* whose peers string is v.
DecodeResponse ==
    /\ pc = "start"
    /\ response' = TrackerResponseFromBytes(TrackerBody(900, EncBytes(v)))
    /\ pc' = "response"
    /\ UNCHANGED <<v, hashes, urlencodeVars, inputVars, torrent, hashVars, trackerVars,
                   peers, stdout, exit, roundTripVars>>

NextCodec == DecodeHashes \/ DecodePeers \/ DecodeResponse

SpecCodec == InitCodec /\ [][NextCodec]_vars

(***************************************************************************)
(* urlencode applied to a family of 20-byte arrays.                        *)
(***************************************************************************)
UrlencodeInputs ==
    { Pattern(HashWidth, seed, step) : seed \in Byte, step \in 0..MaxStep }

InitUrlencode ==
    /\ pc = "start"
    /\ t \in UrlencodeInputs
    /\ encoded = <<>>
    /\ IdleCodec /\ IdleInput /\ torrent = Unset /\ IdleHash /\ IdleTracker
    /\ IdleOutput /\ IdleRoundTrip

Urlencode ==
    /\ pc = "start"
    /\ encoded' = urlencode(t)
    /\ pc' = "encoded"
    /\ UNCHANGED <<t, codecVars, inputVars, torrent, hashVars, trackerVars,
                   peers, stdout, exit, roundTripVars>>

NextUrlencode == Urlencode

SpecUrlencode == InitUrlencode /\ [][NextUrlencode]_vars

(***************************************************************************)
(* Info and Torrent values: info_hash, and Info through to_bytes and       *)
(* from_bytes.                                                             *)
(***************************************************************************)
\* k hashes, each 20 bytes, all different.
HashesOf(k, seed) == [n \in 1..k |-> Pattern(HashWidth, seed + HashWidth * (n - 1), 1)]

PiecesValues == { HashesOf(k, seed) : k \in 0..MaxPieces, seed \in {0, 250} }

Infos ==
    { [length |-> l, name |-> n, piece_length |-> p, pieces |-> h] :
        l \in {0, 7, 92063, 1000000000},
        n \in { <<>>, Text(<<"a">>), Text(<<"s", "a", "m", "p", "l", "e", ".", "t", "x", "t">>), <<195, 169>>, Text(<<"4", ":", "i", "e">>) },
        p \in {0, 32768},
        h \in PiecesValues }

AnnounceUrls ==
    { UrlParse(Text(<<"h", "t", "t", "p", ":", "/", "/", "t", ".", "c", "o", "/", "a">>)).val,
      UrlParse(Text(<<"h", "t", "t", "p", ":", "/", "/", "u", ".", "o", "r", "g", "/", "b", "?", "p", "o", "r", "t", "=", "1", "&", "x", "=", "2">>)).val }

InitInfo ==
    /\ pc = "start"
    /\ \E a \in AnnounceUrls, i \in Infos : torrent = Ok([announce |-> a, info |-> i])
    /\ IdleHash
    /\ IdleRoundTrip
    /\ IdleCodec /\ IdleUrlencode /\ IdleInput /\ IdleTracker /\ IdleOutput

\* torrent.info_hash(), any number of times
InfoHash ==
    /\ pc = "start"
    /\ calls < MaxCalls
    /\ encoded_info' = Some(EncodedInfo(torrent.val))
    /\ hash' = Some(info_hash(torrent.val))
    /\ calls' = calls + 1
    /\ UNCHANGED <<pc, codecVars, urlencodeVars, inputVars, torrent, trackerVars,
                   peers, stdout, exit, roundTripVars>>

\* serde_bencode::to_bytes(&info), from_bytes::<Info> of it, to_bytes again
RoundTrip ==
    /\ pc = "start"
    /\ LET back == InfoFromBytes(SerializeInfo(torrent.val.info))
       IN  /\ decoded' = back
           /\ reencoded' = IF back.ok THEN Some(SerializeInfo(back.val)) ELSE None
    /\ pc' = "roundtrip"
    /\ UNCHANGED <<codecVars, urlencodeVars, inputVars, torrent, hashVars, trackerVars,
                   peers, stdout, exit>>

NextInfo == InfoHash \/ RoundTrip

SpecInfo == InitInfo /\ [][NextInfo]_vars

(***************************************************************************)
(* main: the inputs a run may be given.                                    *)
(***************************************************************************)
\* Command::Decode { value }: a String, so UTF-8.  <<49, 58, 195, 169>> is
\* "1:" and a two-byte character, of which the byte string takes one byte.
DecodeValues ==
    { Text(<<"5", ":", "h", "e", "l", "l", "o">>), Text(<<"i", "5", "2", "e">>), Text(<<"i", "-", "5", "2", "e">>), Text(<<"0", ":">>), Text(<<"l", "e">>), Text(<<"d", "e">>),
      Text(<<"l", "4", ":", "s", "p", "a", "m", "4", ":", "e", "g", "g", "s", "e">>), Text(<<"d", "3", ":", "c", "o", "w", "3", ":", "m", "o", "o", "4", ":", "s", "p", "a", "m", "4", ":", "e", "g", "g", "s", "e">>), Text(<<"d", "1", ":", "b", "i", "1", "e", "1", ":", "a", "i", "2", "e", "1", ":", "b", "l", "i", "3", "e", "e", "e">>),
      Text(<<"2", ":">>) \o <<195, 169>>, Text(<<"l", "1", ":", "\"", "1", ":", "\\", "e">>),
      <<>>, Text(<<"i", "5", "2">>), Text(<<"i", "e">>), Text(<<"i", "5", "x", "e">>), Text(<<"5", ":", "h", "e", "l">>), Text(<<"5">>), Text(<<"x">>), Text(<<"e">>),
      Text(<<"l", "4", ":", "s", "p", "a", "m">>), Text(<<"d", "3", ":", "c", "o", "w">>), Text(<<"d", "3", ":", "c", "o", "w", "e">>), Text(<<"d", "i", "1", "e", "3", ":", "m", "o", "o", "e">>), Text(<<"l", "i", "1", "e", "e", "2", ":">>),
      Text(<<"1", ":">>) \o <<195, 169>>, Text(<<"l", "1", ":">>) \o <<195, 169>> \o Text(<<"e">>) }

InfoEntries(i) ==
    << [k |-> KeyLength, val |-> EncInt(i.length)],
       [k |-> KeyName, val |-> EncBytes(i.name)],
       [k |-> KeyPieceLength, val |-> EncInt(i.piece_length)],
       [k |-> KeyPieces, val |-> EncBytes(Concat(i.pieces))] >>

\* The info dictionaries a file may hold for one Info: the four keys alone,
\* with a key after them, with a key among them, and in another order.
InfoDicts(i) ==
    { RawDict(InfoEntries(i)),
      RawDict(InfoEntries(i) \o <<[k |-> Text(<<"p", "r", "i", "v", "a", "t", "e">>), val |-> EncInt(1)]>>),
      RawDict(<<InfoEntries(i)[1], [k |-> Text(<<"m", "d", "5", "s", "u", "m">>), val |-> EncBytes(Text(<<"0", "f">>))]>>
                  \o Tail(InfoEntries(i))),
      RawDict(Reversed(InfoEntries(i))) }

TorrentFileOf(announceValue, infoValue) ==
    RawDict(<< [k |-> KeyAnnounce, val |-> announceValue],
               [k |-> KeyInfo, val |-> infoValue] >>)

FileInfos ==
    { [length |-> l, name |-> n, piece_length |-> 32768, pieces |-> HashesOf(k, 0)] :
        l \in {0, 92063}, n \in {Text(<<"a">>), <<195, 169>>}, k \in 0..MaxPieces }

AnnounceTexts ==
    { Text(<<"h", "t", "t", "p", ":", "/", "/", "t", ".", "c", "o", "/", "a">>), Text(<<"h", "t", "t", "p", ":", "/", "/", "u", ".", "o", "r", "g", "/", "b", "?", "p", "o", "r", "t", "=", "1", "&", "x", "=", "2">>), Text(<<"h", "t", "t", "p", ":", "/", "/", "t", ".", "c", "o", "/", "a", "#", "f">>), Text(<<"m", "a", "i", "l", "t", "o", ":", "x">>) }

SampleInfo == [length |-> 92063, name |-> Text(<<"s", "a", "m", "p", "l", "e", ".", "t", "x", "t">>), piece_length |-> 32768,
               pieces |-> HashesOf(MaxPieces, 0)]
SampleFile == TorrentFileOf(EncBytes(Text(<<"h", "t", "t", "p", ":", "/", "/", "t", ".", "c", "o", "/", "a">>)), RawDict(InfoEntries(SampleInfo)))

\* Files that are no torrent: not bencode, cut short, a key missing or twice,
\* a value of the wrong kind or range, pieces not a multiple of 20 long.
BadFiles ==
    { <<>>, Text(<<"x">>), Text(<<"i", "1", "e">>), Text(<<"d", "e">>),
      SubSeq(SampleFile, 1, Len(SampleFile) \div 2),
      SubSeq(SampleFile, 1, Len(SampleFile) - 1),
      TorrentFileOf(EncBytes(Text(<<"n", "o", "t", " ", "a", " ", "u", "r", "l">>)), RawDict(InfoEntries(SampleInfo))),
      TorrentFileOf(EncInt(5), RawDict(InfoEntries(SampleInfo))),
      TorrentFileOf(EncBytes(Text(<<"h", "t", "t", "p", ":", "/", "/", "t", ".", "c", "o", "/", "a">>)), Text(<<"l", "e">>)),
      TorrentFileOf(EncBytes(Text(<<"h", "t", "t", "p", ":", "/", "/", "t", ".", "c", "o", "/", "a">>)), RawDict(Tail(InfoEntries(SampleInfo)))),
      TorrentFileOf(EncBytes(Text(<<"h", "t", "t", "p", ":", "/", "/", "t", ".", "c", "o", "/", "a">>)),
                    RawDict(InfoEntries(SampleInfo) \o <<InfoEntries(SampleInfo)[1]>>)),
      TorrentFileOf(EncBytes(Text(<<"h", "t", "t", "p", ":", "/", "/", "t", ".", "c", "o", "/", "a">>)),
                    RawDict(InfoEntries([SampleInfo EXCEPT !.length = 0 - 1]))),
      TorrentFileOf(EncBytes(Text(<<"h", "t", "t", "p", ":", "/", "/", "t", ".", "c", "o", "/", "a">>)),
                    RawDict(InfoEntries([SampleInfo EXCEPT !.name = <<255>>]))),
      TorrentFileOf(EncBytes(Text(<<"h", "t", "t", "p", ":", "/", "/", "t", ".", "c", "o", "/", "a">>)),
                    RawDict(InfoEntries([SampleInfo EXCEPT !.pieces = <<Pattern(19, 0, 1)>>]))),
      RawDict(<<[k |-> KeyInfo, val |-> RawDict(InfoEntries(SampleInfo))]>>) }

TorrentFiles ==
    { TorrentFileOf(EncBytes(a), d) : a \in AnnounceTexts, d \in UNION { InfoDicts(i) : i \in FileInfos } }
        \cup BadFiles

\* std::fs::read(torrent)
TorrentFileReads == { Err("No such file or directory") } \cup { Ok(f) : f \in TorrentFiles }

\* The non-compact peers value: a list of dictionaries.
PeerDicts(n) ==
    <<Ord("l")>>
        \o Concat([m \in 1..n |-> RawDict(<< [k |-> Text(<<"i", "p">>), val |-> EncBytes(Text(<<"1", "0", ".", "0", ".", "0", ".">>) \o Dec(m))],
                                             [k |-> Text(<<"p", "o", "r", "t">>), val |-> EncInt(6881)] >>)])
        \o <<Ord("e")>>

\* What a tracker may answer.
TrackerBodies ==
    { TrackerBody(900, EncBytes(Pattern(n, seed, 1))) : n \in {0, 6, 7, 12}, seed \in {0, 250} }
        \cup { TrackerBody(900, PeerDicts(n)) : n \in 0..2 }
        \cup { TrackerBody(0 - 1, EncBytes(Pattern(6, 0, 1))),
               TrackerBody(1800, EncInt(6)),
               RawDict(<<[k |-> KeyPeers, val |-> EncBytes(Pattern(6, 0, 1))]>>),
               RawDict(<<[k |-> KeyInterval, val |-> EncInt(900)]>>),
               RawDict(<<[k |-> Text(<<"f", "a", "i", "l", "u", "r", "e", " ", "r", "e", "a", "s", "o", "n">>), val |-> EncBytes(Text(<<"b", "a", "d">>))]>>),
               RawDict(<< [k |-> KeyPeers, val |-> EncBytes(Pattern(12, 9, 1))],
                          [k |-> Text(<<"c", "o", "m", "p", "l", "e", "t", "e">>), val |-> EncInt(3)],
                          [k |-> KeyInterval, val |-> EncInt(60)] >>),
               <<>>, Text(<<"<", "h", "t", "m", "l", ">">>), Text(<<"d", "8", ":", "i", "n", "t", "e", "r", "v", "a", "l", "i", "9", "0", "0", "e", "5", ":", "p", "e", "e", "r", "s", "6", ":", "a", "b", "c">>) }

(***************************************************************************)
(* main.  A step runs from one await to the next.                          *)
(***************************************************************************)
Init ==
    /\ pc = "main"
    /\ \/ command = "decode" /\ value \in DecodeValues /\ torrent_file = Unset
       \/ command \in {"info", "peers"} /\ value = <<>> /\ torrent_file \in TorrentFileReads
    /\ torrent = Unset
    /\ IdleHash /\ IdleTracker /\ IdleOutput
    /\ IdleCodec /\ IdleUrlencode /\ IdleRoundTrip

\* let torrent: Torrent = serde_bencode::from_bytes(&std::fs::read(torrent)?)?;
ReadTorrent(read) == IF read.ok THEN TorrentFromBytes(read.val) ELSE Err(read.err)

\* The lines Command::Info prints.
InfoLines(tor) ==
    << Text(<<"T", "r", "a", "c", "k", "e", "r", " ", "U", "R", "L", ":", " ">>) \o UrlToString(tor.announce),
       Text(<<"L", "e", "n", "g", "t", "h", ":", " ">>) \o Dec(tor.info.length),
       Text(<<"I", "n", "f", "o", " ", "H", "a", "s", "h", ":", " ">>) \o HexEncode(info_hash(tor)),
       Text(<<"P", "i", "e", "c", "e", " ", "L", "e", "n", "g", "t", "h", ":", " ">>) \o Dec(tor.info.piece_length),
       Text(<<"P", "i", "e", "c", "e", " ", "H", "a", "s", "h", "e", "s", ":">>) >>
        \o [n \in 1..Len(tor.info.pieces) |-> HexEncode(tor.info.pieces[n])]

\* Command::Decode
MainDecode ==
    /\ pc = "main"
    /\ command = "decode"
    /\ LET decoded_value == decode_bencoded_value(value)
       IN  IF decoded_value.panic
           THEN exit' = "panic" /\ stdout' = stdout
           ELSE exit' = "ok" /\ stdout' = <<JsonToString(decoded_value.val)>>
    /\ pc' = "done"
    /\ UNCHANGED <<codecVars, urlencodeVars, inputVars, torrent, hashVars, trackerVars,
                   peers, roundTripVars>>

\* Command::Info
MainInfo ==
    /\ pc = "main"
    /\ command = "info"
    /\ LET read == ReadTorrent(torrent_file)
       IN  /\ torrent' = read
           /\ IF read.ok
              THEN /\ encoded_info' = Some(EncodedInfo(read.val))
                   /\ hash' = Some(info_hash(read.val))
                   /\ calls' = calls + 1
                   /\ stdout' = InfoLines(read.val)
                   /\ exit' = "ok"
              ELSE /\ exit' = "error"
                   /\ UNCHANGED <<hashVars, stdout>>
    /\ pc' = "done"
    /\ UNCHANGED <<codecVars, urlencodeVars, inputVars, trackerVars, peers, roundTripVars>>

\* Command::Peers as far as the first await of get_peers: the torrent is read,
\* the Client made, the request built, its query set, and the request handed
\* to client.execute.
MainPeers ==
    /\ pc = "main"
    /\ command = "peers"
    /\ LET read == ReadTorrent(torrent_file)
           made == ClientNew(read.val)
       IN  /\ torrent' = read
           /\ IF ~read.ok
              THEN /\ exit' = "error" /\ pc' = "done"
                   /\ UNCHANGED <<hashVars, trackerVars>>
              ELSE /\ client' = Some(made)
                   /\ body' = body
                   /\ IF ~UrlHasHost(read.val.announce)
                      THEN \* client.get(url).build()? fails
                           /\ exit' = "error" /\ pc' = "done"
                           /\ UNCHANGED <<hashVars, request, sent>>
                      ELSE /\ encoded_info' = Some(EncodedInfo(read.val))
                           /\ hash' = Some(info_hash(read.val))
                           /\ calls' = calls + 1
                           /\ request' = Some([ method |-> "GET",
                                                url |-> UrlSetQuery(read.val.announce,
                                                            RequestQuery(made, read.val)) ])
                           /\ sent' = sent + 1
                           /\ pc' = "execute"
                           /\ exit' = exit
    /\ UNCHANGED <<codecVars, urlencodeVars, inputVars, peers, stdout, roundTripVars>>

\* get_peers sending the request again when client.execute fails.
ExecuteFails_Retry ==
    /\ pc = "execute"
    /\ sent < 3
    /\ sent' = sent + 1
    /\ UNCHANGED <<pc, codecVars, urlencodeVars, inputVars, torrent, hashVars, client, request,
                   body, peers, stdout, exit, roundTripVars>>

\* client.execute(request).await? fails: get_peers returns the error, and
\* main returns it.
ExecuteFails ==
    /\ pc = "execute"
    /\ exit' = "error"
    /\ pc' = "done"
    /\ UNCHANGED <<codecVars, urlencodeVars, inputVars, torrent, hashVars, trackerVars,
                   peers, stdout, roundTripVars>>

\* client.execute(request).await? yields the response.
ExecuteResponds ==
    /\ pc = "execute"
    /\ pc' = "bytes"
    /\ UNCHANGED <<codecVars, urlencodeVars, inputVars, torrent, hashVars, trackerVars,
                   peers, stdout, exit, roundTripVars>>

\* .bytes().await? fails.
BytesFails ==
    /\ pc = "bytes"
    /\ exit' = "error"
    /\ pc' = "done"
    /\ UNCHANGED <<codecVars, urlencodeVars, inputVars, torrent, hashVars, trackerVars,
                   peers, stdout, roundTripVars>>

\* .bytes().await? yields the body; it is decoded, and main prints the peers.
BytesArrive ==
    /\ pc = "bytes"
    /\ \E b \in TrackerBodies :
          LET r == TrackerResponseFromBytes(b)
          IN  /\ body' = Some(b)
              /\ peers' = IF r.ok THEN Ok(r.val.peers) ELSE Err(r.err)
              /\ stdout' = IF r.ok
                           THEN [n \in 1..Len(r.val.peers) |-> PeerToString(r.val.peers[n])]
                           ELSE stdout
              /\ exit' = IF r.ok THEN "ok" ELSE "error"
    /\ pc' = "done"
    /\ UNCHANGED <<codecVars, urlencodeVars, inputVars, torrent, hashVars, client, request,
                   sent, roundTripVars>>

Next ==
    \/ MainDecode
    \/ MainInfo
    \/ MainPeers
    \/ ExecuteFails
    \/ ExecuteResponds
    \/ BytesFails
    \/ BytesArrive

Spec == Init /\ [][Next]_vars

(***************************************************************************)
(* What the claims are stated with.                                        *)
(***************************************************************************)
RECURSIVE SplitOn(_, _)
\* The pieces of bs between the bytes sep.
SplitOn(bs, sep) ==
    LET p == IndexFrom(bs, 1, sep)
    IN  IF p = 0 THEN <<bs>>
        ELSE <<SubSeq(bs, 1, p - 1)>> \o SplitOn(SubSeq(bs, p + 1, Len(bs)), sep)

\* bs is the decimal text of n: digits alone, no leading zero.
IsDecimalOf(bs, n) ==
    /\ bs # <<>>
    /\ \A k \in 1..Len(bs) : IsDigit(bs[k])
    /\ Len(bs) > 1 => bs[1] # Ord("0")
    /\ DigitsValue(bs) = n

\* ip is the dotted-decimal text of the four bytes quad.
IsDottedQuadOf(ip, quad) ==
    LET parts == SplitOn(ip, Ord("."))
    IN  /\ Len(parts) = 4
        /\ \A k \in 1..4 : IsDecimalOf(parts[k], quad[k])

\* The value of a hex digit of either case, or -1.
HexValue(c) ==
    IF IsDigit(c) THEN c - Ord("0")
    ELSE IF c \in Ord("a")..Ord("f") THEN c - Ord("a") + 10
    ELSE IF c \in Ord("A")..Ord("F") THEN c - Ord("A") + 10
    ELSE 0 - 1

\* text is "%XX" for each byte of bs, in order, and nothing else.
IsPercentEncodingOf(text, bs) ==
    /\ Len(text) = 3 * Len(bs)
    /\ \A n \in 1..Len(bs) :
          /\ text[3 * n - 2] = Ord("%")
          /\ HexValue(text[3 * n - 1]) >= 0
          /\ HexValue(text[3 * n]) >= 0
          /\ HexValue(text[3 * n - 1]) * 16 + HexValue(text[3 * n]) = bs[n]

\* peer is what the 6-byte record at position n of bs stands for.
IsPeerOfRecord(peer, bs, n) ==
    LET c == SubSeq(bs, 6 * (n - 1) + 1, 6 * n)
    IN  /\ IsDottedQuadOf(peer.ip, SubSeq(c, 1, 4))
        /\ peer.port = c[5] * 256 + c[6]
        /\ peer.port \in 0..65535

(***************************************************************************)
(* The fixed-width decoders and urlencode.                                 *)
(***************************************************************************)
\* C1: both fixed-width decoders (Hashes, width 20; Peers, width 6) succeed on
\* a byte string whose length is a multiple of the width, with length/width
\* elements, the i-th built from the i-th run of width bytes (the empty string
\* gives the empty sequence); on any other length they fail and give no
\* element.
C1_ChunkDecoding ==
    /\ pc = "hashes" =>
          IF Len(v) % 20 = 0
          THEN /\ hashes.ok
               /\ Len(hashes.val) = Len(v) \div 20
               /\ \A n \in 1..Len(hashes.val) :
                      /\ Len(hashes.val[n]) = 20
                      /\ \A m \in 1..20 : hashes.val[n][m] = v[20 * (n - 1) + m]
          ELSE ~hashes.ok /\ hashes.val = <<>>
    /\ pc = "peers" =>
          IF Len(v) % 6 = 0
          THEN /\ peers.ok
               /\ Len(peers.val) = Len(v) \div 6
               /\ \A n \in 1..Len(peers.val) : IsPeerOfRecord(peers.val[n], v, n)
          ELSE ~peers.ok /\ peers.val = <<>>

C1_Witness ==
    \/ pc = "hashes" /\ Len(v) = 40 /\ hashes.ok /\ Len(hashes.val) = 2 /\ v[1] # v[21]
    \/ pc = "peers" /\ Len(v) = 7 /\ ~peers.ok

\* C9: urlencode writes every one of the 20 bytes as '%' and the two hex
\* digits of its value, in order: 60 characters, no byte passed through.
C9_UrlencodeEveryByte ==
    pc = "encoded" =>
        /\ Len(t) = 20
        /\ Len(encoded) = 60
        /\ IsPercentEncodingOf(encoded, t)

C9_Witness ==
    /\ pc = "encoded"
    /\ t[1] < 16
    /\ \E n \in 1..20 : IsUnreserved(t[n])
    /\ Len(encoded) = 60

\* C10: a 6-byte record c decodes to the peer with ip c[0].c[1].c[2].c[3] in
\* dotted decimal and port c[4] * 256 + c[5], in 0..65535; a tracker body
\* with interval 900 and a 12-byte peers string decodes to exactly two peers,
\* in record order.
C10_CompactPeers ==
    /\ (pc = "peers" /\ peers.ok) =>
          \A n \in 1..Len(peers.val) : IsPeerOfRecord(peers.val[n], v, n)
    /\ (pc = "response" /\ Len(v) = 12) =>
          /\ response.ok
          /\ response.val._interval = 900
          /\ Len(response.val.peers) = 2
          /\ \A n \in 1..2 : IsPeerOfRecord(response.val.peers[n], v, n)

C10_Witness ==
    /\ pc = "response"
    /\ Len(v) = 12
    /\ response.ok
    /\ Len(response.val.peers) = 2
    /\ response.val.peers[1].port # response.val.peers[2].port
    /\ v[5] # v[6]

(***************************************************************************)
(* The info hash and the Info schema.                                      *)
(***************************************************************************)
\* C3: info_hash is computed over the encoding of Info alone: every call
\* returns the digest of the encoded info, the same bytes as the call before
\* it and as the hash of any Torrent with the same info and another announce
\* URL, and leaves the Torrent as it was.
C3_InfoHashOfInfoAlone ==
    [][calls' > calls =>
          /\ torrent' = torrent
          /\ hash'.some
          /\ Len(hash'.val) = 20
          /\ hash'.val = Sha1(SerializeInfo(torrent.val.info))
          /\ calls > 0 => hash' = hash
          /\ \A a \in AnnounceUrls :
                 info_hash([torrent.val EXCEPT !.announce = a]) = hash'.val]_vars

C3_Witness ==
    /\ calls = 2
    /\ hash.some
    /\ torrent.val.announce.query.some
    /\ Len(torrent.val.info.pieces) = 2

C2_NeverPanics == exit # "panic"

RECURSIVE CanonicalEncode(_)
\* The canonical bencode encoding of a decoded value: dictionaries by
\* ascending key.
CanonicalEncode(x) ==
    CASE x.t = "int" -> EncInt(x.i)
      [] x.t = "bytes" -> EncBytes(x.b)
      [] x.t = "list" ->
            <<Ord("l")>> \o Concat([n \in 1..Len(x.items) |-> CanonicalEncode(x.items[n])])
                         \o <<Ord("e")>>
      [] x.t = "dict" ->
            EncDict([n \in 1..Len(x.items) |->
                        [k |-> x.items[n].k, val |-> CanonicalEncode(x.items[n].val)]])

\* The info dictionary of the torrent file read.
FileInfoDict == FieldValue(FromBytes(torrent_file.val).val.items, KeyInfo)

\* C4: the bytes info_hash hands to SHA-1 are the canonical encoding of the
\* whole info dictionary of the file the Torrent was decoded from, whatever
\* keys that dictionary holds.
C4_HashesWholeInfoDict ==
    (command \in {"info", "peers"} /\ encoded_info.some) =>
        encoded_info.val = CanonicalEncode(FileInfoDict)

\* C6: one call of get_peers sends at most one request; a failure at any
\* step ends the call with an error and no peer list; a peer list is returned
\* only after the one request was answered and its body read and decoded.
C6_SingleRequestNoRetry ==
    /\ sent \in {0, 1}
    /\ request.some <=> sent = 1
    /\ exit = "error" => ~peers.ok /\ stdout = <<>>
    /\ (body.some /\ ~TrackerResponseFromBytes(body.val).ok) => exit = "error"
    /\ peers.ok => /\ sent = 1
                   /\ body.some
                   /\ pc = "done"
                   /\ FromBytes(body.val).ok
    /\ pc = "done" => exit # "running"

C6_Witness ==
    /\ pc = "done"
    /\ sent = 1
    /\ peers.ok
    /\ Len(peers.val) = 2
    /\ exit = "ok"

\* The peers value of body b is a bencoded list.
HasPeerList(b) ==
    LET x == FromBytes(b)
    IN  /\ x.ok
        /\ x.val.t = "dict"
        /\ FieldAt(x.val.items, KeyPeers) # {}
        /\ FieldValue(x.val.items, KeyPeers).t = "list"

\* C7: a tracker response whose peers value is a list of dictionaries makes
\* the announce fail with an error: no peer list, nothing printed.
C7_NonCompactRejected ==
    (body.some /\ HasPeerList(body.val)) =>
        /\ ~peers.ok
        /\ peers.val = <<>>
        /\ exit = "error"
        /\ stdout = <<>>

C7_Witness ==
    /\ pc = "done"
    /\ body.some
    /\ HasPeerList(body.val)
    /\ Len(FieldValue(FromBytes(body.val).val.items, KeyPeers).items) = 2
    /\ exit = "error"

\* The parameters of a query string: its pieces between '&', each split at
\* its first '='.
QueryParams(q) ==
    LET parts == SplitOn(q, Ord("&"))
    IN  [n \in 1..Len(parts) |->
            LET eq == IndexFrom(parts[n], 1, Ord("="))
            IN  IF eq = 0 THEN [k |-> parts[n], val |-> <<>>]
                ELSE [k |-> SubSeq(parts[n], 1, eq - 1),
                      val |-> SubSeq(parts[n], eq + 1, Len(parts[n]))]]

\* C8: the request get_peers sends is a GET to the announce URL whose query
\* holds info_hash, peer_id, port, uploaded, downloaded, left and compact once
\* each: compact 1, info_hash the %XX encoding of the info hash, the others
\* the Client's fields (left the torrent's length, uploaded and downloaded 0).
C8_RequestQuery ==
    sent >= 1 =>
        LET ps == QueryParams(request.val.url.query.val)
            names == << Text(<<"i", "n", "f", "o", "_", "h", "a", "s", "h">>), Text(<<"p", "e", "e", "r", "_", "i", "d">>), Text(<<"p", "o", "r", "t">>), Text(<<"u", "p", "l", "o", "a", "d", "e", "d">>),
                        Text(<<"d", "o", "w", "n", "l", "o", "a", "d", "e", "d">>), Text(<<"l", "e", "f", "t">>), Text(<<"c", "o", "m", "p", "a", "c", "t">>) >>
            param(k) == FieldValue(ps, k)
        IN  /\ request.val.method = "GET"
            /\ request.val.url.base = torrent.val.announce.base
            /\ request.val.url.query.some
            /\ Len(ps) = 7
            /\ \A n \in 1..7 : Cardinality(FieldAt(ps, names[n])) = 1
            /\ param(Text(<<"c", "o", "m", "p", "a", "c", "t">>)) = Text(<<"1">>)
            /\ IsPercentEncodingOf(param(Text(<<"i", "n", "f", "o", "_", "h", "a", "s", "h">>)), hash.val)
            /\ hash.val = info_hash(torrent.val)
            /\ param(Text(<<"p", "e", "e", "r", "_", "i", "d">>)) = client.val.peer_id
            /\ IsDecimalOf(param(Text(<<"p", "o", "r", "t">>)), client.val.port)
            /\ IsDecimalOf(param(Text(<<"u", "p", "l", "o", "a", "d", "e", "d">>)), 0)
            /\ IsDecimalOf(param(Text(<<"d", "o", "w", "n", "l", "o", "a", "d", "e", "d">>)), 0)
            /\ IsDecimalOf(param(Text(<<"l", "e", "f", "t">>)), torrent.val.info.length)
            /\ client.val.left = torrent.val.info.length

C8_Witness ==
    /\ sent = 1
    /\ pc = "execute"
    /\ torrent.val.announce.query.some
    /\ torrent.val.info.length = 92063
    /\ Len(request.val.url.query.val) > 60

====
